---- MODULE Spec2Model ----
(***************************************************************************)
(* Model of the prompt queue system (src/prompt_queue_system.py) and of    *)
(* the template agent it calls (src/dual_output_agent.py).                 *)
(*                                                                         *)
(* A Python str is a sequence of one-character strings.  A literal that    *)
(* the program only ever copies (a template text, a JSON key) is a         *)
(* one-element sequence holding the literal.  File names, file contents    *)
(* and directory names are such sequences, so that suffix matching, stem   *)
(* extraction, lower-casing, substring search and name ordering are        *)
(* computed character by character as the library does.                    *)
(***************************************************************************)
EXTENDS Integers, Sequences, FiniteSets, TLC

VARIABLES
    queued,          \* queued/: file name -> content of the plain files
    queued_subdirs,  \* queued/: directory name -> (file name -> content)
    run,             \* run/: archive directory name -> (file name -> content)
    now,             \* wall clock, seconds after ClockBase
    pc,              \* position of process_all_prompts: "idle" or "loop"
    queued_prompts,  \* local of process_all_prompts: the listed paths
    idx,             \* local of process_all_prompts: next loop index
    results,         \* local of process_all_prompts: execution records
                     \* (the locals are cleared when the call ends)
    ret,             \* outcome of the last call: the operation, how it
                     \* ended (returned, or the exception), the value
    dropped,         \* number of entries placed into queued/ so far
    text,            \* content of the file handed to read_prompt_content
    prompt_data,     \* outcome of read_prompt_content on text
    result,          \* outcome of process_prompt on prompt_data
    phase            \* position of the single-prompt pipeline

vars == <<queued, queued_subdirs, run, now, pc, queued_prompts, idx, results,
          ret, dropped, text, prompt_data, result, phase>>

fsVars == <<queued, queued_subdirs, run, now, pc, queued_prompts, idx,
            results, ret, dropped>>

textVars == <<text, prompt_data, result, phase>>

-----------------------------------------------------------------------------
(* Bounds of the model                                                     *)

MaxLines == 2

MaxDrops == 2

MaxClock == 1

-----------------------------------------------------------------------------
(* Characters and str methods                                              *)

QUOTE == "\""

Ascii ==
    <<"\t", "\n", "\r", " ", QUOTE, "#", ",", "-", ".",
      "0", "1", "2", "3", "4", "5", "6", "7", "8", "9", ":",
      "A", "B", "C", "D", "E", "F", "G", "H", "I", "J", "K", "L", "M",
      "N", "O", "P", "Q", "R", "S", "T", "U", "V", "W", "X", "Y", "Z",
      "[", "]", "_",
      "a", "b", "c", "d", "e", "f", "g", "h", "i", "j", "k", "l", "m",
      "n", "o", "p", "q", "r", "s", "t", "u", "v", "w", "x", "y", "z",
      "{", "}">>

Chars == {Ascii[i] : i \in 1..Len(Ascii)}

Ord == [c \in Chars |-> CHOOSE i \in 1..Len(Ascii) : Ascii[i] = c]

Upper == {Ascii[i] : i \in Ord["A"]..Ord["Z"]}

Whitespace == {"\t", "\n", "\r", " "}

\* str.lower() on one character
LowerChar(c) == IF c \in Upper THEN Ascii[Ord[c] - Ord["A"] + Ord["a"]] ELSE c

\* str.lower()
Lower(s) == [i \in 1..Len(s) |-> LowerChar(s[i])]

\* sub in s
Contains(sub, s) ==
    \E i \in 0..(Len(s) - Len(sub)) : SubSeq(s, i + 1, i + Len(sub)) = sub

\* s.startswith(p)
StartsWith(s, p) == Len(p) <= Len(s) /\ SubSeq(s, 1, Len(p)) = p

\* the match of the glob pattern "*" + ext against a name
EndsWith(s, e) == Len(e) <= Len(s) /\ SubSeq(s, Len(s) - Len(e) + 1, Len(s)) = e

\* s.strip()
Strip(s) ==
    LET keep == {i \in 1..Len(s) : s[i] \notin Whitespace}
    IN  IF keep = {} THEN <<>>
        ELSE LET lo == CHOOSE i \in keep : \A j \in keep : i <= j
                 hi == CHOOSE i \in keep : \A j \in keep : j <= i
             IN  SubSeq(s, lo, hi)

\* s.find(c): the first index of c in s, 0 when there is none
Find(s, c) ==
    LET at == {i \in 1..Len(s) : s[i] = c}
    IN  IF at = {} THEN 0 ELSE CHOOSE i \in at : \A j \in at : i <= j

\* s.rfind(c): the last index of c in s, 0 when there is none
RFind(s, c) ==
    LET at == {i \in 1..Len(s) : s[i] = c}
    IN  IF at = {} THEN 0 ELSE CHOOSE i \in at : \A j \in at : j <= i

RECURSIVE Split(_, _)
\* s.split(c)
Split(s, c) ==
    LET i == Find(s, c)
    IN  IF i = 0 THEN <<s>>
        ELSE <<SubSeq(s, 1, i - 1)>> \o Split(SubSeq(s, i + 1, Len(s)), c)

RECURSIVE Join(_, _)
\* sep.join(parts)
Join(sep, parts) ==
    IF Len(parts) = 0 THEN <<>>
    ELSE IF Len(parts) = 1 THEN parts[1]
    ELSE parts[1] \o sep \o Join(sep, Tail(parts))

\* a < b on str: lexicographic by code point
StrLess(a, b) ==
    \E i \in 1..(Len(b)) :
        /\ i <= Len(a) + 1
        /\ SubSeq(a, 1, i - 1) = SubSeq(b, 1, i - 1)
        /\ (i = Len(a) + 1 \/ Ord[a[i]] < Ord[b[i]])

\* sorted(S) for a set of str, ascending
RECURSIVE SortedAsc(_)
SortedAsc(S) ==
    IF S = {} THEN <<>>
    ELSE LET m == CHOOSE x \in S : \A y \in S \ {x} : StrLess(x, y)
         IN  <<m>> \o SortedAsc(S \ {m})

\* list.sort(reverse=True) for a set of str
RECURSIVE SortedDesc(_)
SortedDesc(S) ==
    IF S = {} THEN <<>>
    ELSE LET m == CHOOSE x \in S : \A y \in S \ {x} : StrLess(y, x)
         IN  <<m>> \o SortedDesc(S \ {m})

\* PurePath.stem
Stem(name) ==
    LET i == RFind(name, ".")
    IN  IF 1 < i /\ i < Len(name) THEN SubSeq(name, 1, i - 1) ELSE name

\* dict[key] = value
Put(f, k, v) == [x \in DOMAIN f \cup {k} |-> IF x = k THEN v ELSE f[x]]

\* removal of one directory entry
Remove(f, k) == [x \in DOMAIN f \ {k} |-> f[x]]

\* {} and an empty directory
Empty == [x \in {} |-> <<>>]

-----------------------------------------------------------------------------
(* Literals of the program                                                 *)

kw_emergency == <<"e", "m", "e", "r", "g", "e", "n", "c", "y">>
kw_hospital == <<"h", "o", "s", "p", "i", "t", "a", "l">>
kw_software == <<"s", "o", "f", "t", "w", "a", "r", "e">>
kw_deployment == <<"d", "e", "p", "l", "o", "y", "m", "e", "n", "t">>
kw_business == <<"b", "u", "s", "i", "n", "e", "s", "s">>
kw_investment == <<"i", "n", "v", "e", "s", "t", "m", "e", "n", "t">>

emergency_room == <<"emergency_room">>
software_deployment == <<"software_deployment">>
business_investment == <<"business_investment">>
generic_decision == <<"generic_decision">>

ext_txt == <<".", "t", "x", "t">>
ext_md == <<".", "m", "d">>

decision_logic_txt ==
    <<"d", "e", "c", "i", "s", "i", "o", "n", "_", "l", "o", "g", "i", "c">> \o ext_txt
flowchart_md == <<"f", "l", "o", "w", "c", "h", "a", "r", "t">> \o ext_md
execution_metadata_json ==
    <<"e", "x", "e", "c", "u", "t", "i", "o", "n", "_",
      "m", "e", "t", "a", "d", "a", "t", "a", ".", "j", "s", "o", "n">>

\* DualOutputDecisionAgent.create_*_logic: (logic_text, mermaid_chart)
create_emergency_room_logic ==
    <<  <<"EMERGENCY ROOM DECISION LOGIC">>,
        <<"flowchart TD A[Patient experiencing symptoms]">>  >>

create_software_deployment_logic ==
    <<  <<"SOFTWARE DEPLOYMENT DECISION LOGIC">>,
        <<"flowchart TD A[Code ready for deployment]">>  >>

create_business_investment_logic ==
    <<  <<"BUSINESS INVESTMENT DECISION LOGIC">>,
        <<"flowchart TD A[Investment opportunity identified]">>  >>

-----------------------------------------------------------------------------
(* Clock formatting                                                        *)

Digit(n) == Ascii[Ord["0"] + n]

TwoDigits(n) == <<Digit(n \div 10), Digit(n % 10)>>

\* datetime.now().strftime("%Y%m%d_%H%M%S"), the clock at ClockBase + t seconds
Strftime(t) ==
    <<"2", "0", "2", "4", "0", "1", "0", "1", "_", "1", "2", "0", "0">>
        \o TwoDigits(t)

\* datetime.now().isoformat()
Isoformat(t) == <<"2024-01-01T12:00:">> \o TwoDigits(t)

-----------------------------------------------------------------------------
(* read_prompt_content, extract_topic, process_prompt                      *)

\* line 62: line.startswith('#') and ':' in line
IsMetadataLine(line) == StartsWith(line, <<"#">>) /\ Find(line, ":") > 0

\* the rule test as an exact match of the marker
IsRuleLineExact(line) == line = <<"-", "-", "-">>

\* line 65: line.startswith('---')
IsRuleLine(line) == StartsWith(line, <<"-", "-", "-">>)

\* line 63: key, value = line[1:].split(':', 1)
SplitKeyValue(line) ==
    LET rest == SubSeq(line, 2, Len(line))
        i    == Find(rest, ":")
    IN  [key |-> SubSeq(rest, 1, i - 1), value |-> SubSeq(rest, i + 1, Len(rest))]

RECURSIVE ParseLines(_, _, _)
\* the loop of read_prompt_content over the remaining lines
ParseLines(lines, metadata, prompt_content) ==
    IF Len(lines) = 0
    THEN [metadata |-> metadata, prompt_content |-> prompt_content]
    ELSE LET line == Strip(Head(lines))
         IN  IF IsMetadataLine(line)
             THEN LET kv == SplitKeyValue(line)
                  IN  ParseLines(Tail(lines),
                                 Put(metadata, Strip(kv.key), Strip(kv.value)),
                                 prompt_content)
             ELSE IF IsRuleLine(line)
             THEN ParseLines(Tail(lines), metadata, prompt_content)
             ELSE ParseLines(Tail(lines), metadata, Append(prompt_content, line))

read_prompt_content(name, content, t) ==
    LET lines  == Split(Strip(content), "\n")
        parsed == ParseLines(lines, Empty, <<>>)
    IN  [filename  |-> name,
         content   |-> Strip(Join(<<"\n">>, parsed.prompt_content)),
         metadata  |-> parsed.metadata,
         timestamp |-> Isoformat(t)]

\* the classifier with the business group tested first
extract_topic_business_first(content) ==
    LET content_lower == Lower(content)
    IN  IF Contains(kw_business, content_lower)
           \/ Contains(kw_investment, content_lower) THEN business_investment
        ELSE IF Contains(kw_emergency, content_lower) THEN emergency_room
        ELSE IF Contains(kw_software, content_lower)
                \/ Contains(kw_deployment, content_lower) THEN software_deployment
        ELSE generic_decision

extract_topic(content) ==
    LET content_lower == Lower(content)
    IN  IF Contains(kw_emergency, content_lower) THEN emergency_room
        ELSE IF Contains(kw_software, content_lower)
                \/ Contains(kw_deployment, content_lower) THEN software_deployment
        ELSE IF Contains(kw_business, content_lower)
                \/ Contains(kw_investment, content_lower) THEN business_investment
        ELSE generic_decision

\* lines 85-93 of process_prompt: the template pair chosen for the content
SelectTemplate(content) ==
    IF Contains(kw_emergency, Lower(content)) \/ Contains(kw_hospital, Lower(content))
    THEN create_emergency_room_logic
    ELSE IF Contains(kw_software, Lower(content))
            \/ Contains(kw_deployment, Lower(content))
    THEN create_software_deployment_logic
    ELSE IF Contains(kw_business, Lower(content))
            \/ Contains(kw_investment, Lower(content))
    THEN create_business_investment_logic
    ELSE create_business_investment_logic

process_prompt(pd, t) ==
    LET content == pd.content
        topic   == extract_topic(content)
        pair    == SelectTemplate(content)
    IN  [prompt        |-> pd,
         topic         |-> topic,
         logic_text    |-> pair[1],
         mermaid_chart |-> pair[2],
         processed_at  |-> Isoformat(t)]

-----------------------------------------------------------------------------
(* Prompt texts of the single-prompt pipeline                              *)

Lines ==
    { <<>>,
      <<"#", "k", ":", "v">>,
      <<"#", " ", "k", " ", ":", " ", "w">>,
      <<"#", "t", ":", "a", ":", "b">>,
      <<" ", "#", "j", ":", "u">>,
      <<"#", "x">>,
      <<"a", ":", "b">>,
      <<"-", "-", "-">>,
      <<"-", "-", "-", " ", "x">>,
      <<" ", "x", " ">>,
      <<"E", "m", "e", "r", "g", "e", "n", "c", "y">>,
      <<"e", "m", "e", "r", "g", "e", "n", "c">>,
      <<"D", "E", "P", "L", "O", "Y", "M", "E", "N", "T">>,
      kw_business,
      kw_investment,
      kw_hospital \o <<" ">> \o kw_software }

LineSeqs == UNION {[1..n -> Lines] : n \in 0..MaxLines}

Texts == {Join(<<"\n">>, ls) : ls \in LineSeqs}

a_txt == <<"a">> \o ext_txt

NoData == [filename |-> <<>>, content |-> <<>>, metadata |-> Empty, timestamp |-> <<>>]

NoResult ==
    [prompt |-> NoData, topic |-> <<>>, logic_text |-> <<>>,
     mermaid_chart |-> <<>>, processed_at |-> <<>>]

TextIdle == text = <<>> /\ prompt_data = NoData /\ result = NoResult /\ phase = "none"

\* a prompt file is read and parsed (process_all_prompts, line 171)
ReadPrompt ==
    /\ phase = "file"
    /\ prompt_data' = read_prompt_content(a_txt, text, 0)
    /\ phase' = "read"
    /\ UNCHANGED <<text, result, fsVars>>

\* the parsed prompt is processed (process_all_prompts, line 174)
ProcessPrompt ==
    /\ phase = "read"
    /\ result' = process_prompt(prompt_data, 0)
    /\ phase' = "processed"
    /\ UNCHANGED <<text, prompt_data, fsVars>>

-----------------------------------------------------------------------------
(* json.dumps and json.loads on the metadata document                      *)
(* A document is the sequence of its structural characters, with each str  *)
(* spelled between quotes; insignificant whitespace is left out.           *)

JsonString(s) == <<QUOTE>> \o s \o <<QUOTE>>

JsonList(l) ==
    <<"[">> \o Join(<<",">>, [i \in 1..Len(l) |-> JsonString(l[i])]) \o <<"]">>

\* json.dumps(metadata, indent=2)
JsonDumps(m) ==
    <<"{">> \o JsonString(<<"original_prompt">>) \o <<":">> \o JsonString(m.original_prompt)
    \o <<",">> \o JsonString(<<"processed_at">>) \o <<":">> \o JsonString(m.processed_at)
    \o <<",">> \o JsonString(<<"topic">>) \o <<":">> \o JsonString(m.topic)
    \o <<",">> \o JsonString(<<"files_generated">>) \o <<":">> \o JsonList(m.files_generated)
    \o <<"}">>

JsonFail == [ok |-> FALSE, val |-> <<>>, next |-> 0]

\* a str value starting at t[i]
ParseString(t, i) ==
    IF i > Len(t) \/ t[i] # QUOTE THEN JsonFail
    ELSE LET close == {j \in (i + 1)..Len(t) : t[j] = QUOTE}
         IN  IF close = {} THEN JsonFail
             ELSE LET j == CHOOSE x \in close : \A y \in close : x <= y
                  IN  [ok |-> TRUE, val |-> SubSeq(t, i + 1, j - 1), next |-> j + 1]

RECURSIVE ParseItems(_, _, _)
\* the items of an array, t[i] being the start of the next item
ParseItems(t, i, acc) ==
    LET s == ParseString(t, i)
    IN  IF ~s.ok \/ s.next > Len(t) THEN JsonFail
        ELSE IF t[s.next] = "," THEN ParseItems(t, s.next + 1, Append(acc, s.val))
        ELSE IF t[s.next] = "]"
        THEN [ok |-> TRUE, val |-> Append(acc, s.val), next |-> s.next + 1]
        ELSE JsonFail

\* a value starting at t[i]: a str or an array of str
ParseValue(t, i) ==
    IF i > Len(t) THEN JsonFail
    ELSE IF t[i] = QUOTE THEN ParseString(t, i)
    ELSE IF t[i] = "["
    THEN IF i + 1 <= Len(t) /\ t[i + 1] = "]"
         THEN [ok |-> TRUE, val |-> <<>>, next |-> i + 2]
         ELSE ParseItems(t, i + 1, <<>>)
    ELSE JsonFail

RECURSIVE ParseMembers(_, _, _)
\* the members of an object, t[i] being the start of the next key
ParseMembers(t, i, acc) ==
    LET k == ParseString(t, i)
    IN  IF ~k.ok \/ Len(k.val) # 1 \/ k.next > Len(t) \/ t[k.next] # ":" THEN JsonFail
        ELSE LET v == ParseValue(t, k.next + 1)
             IN  IF ~v.ok \/ v.next > Len(t) THEN JsonFail
                 ELSE IF t[v.next] = ","
                 THEN ParseMembers(t, v.next + 1, Put(acc, k.val[1], v.val))
                 ELSE IF t[v.next] = "}"
                 THEN [ok |-> TRUE, val |-> Put(acc, k.val[1], v.val), next |-> v.next + 1]
                 ELSE JsonFail

\* json.loads(text): ok is FALSE where json.loads raises JSONDecodeError
JsonLoads(t) ==
    IF Len(t) < 2 \/ t[1] # "{" THEN JsonFail
    ELSE IF t[2] = "}"
    THEN IF Len(t) = 2 THEN [ok |-> TRUE, val |-> Empty, next |-> 3] ELSE JsonFail
    ELSE LET r == ParseMembers(t, 2, Empty)
         IN  IF r.ok /\ r.next = Len(t) + 1 THEN r ELSE JsonFail

-----------------------------------------------------------------------------
(* get_queued_prompts, move_to_run, get_run_history                        *)

\* Path.glob("*" + ext) on queued/: matches files and directories alike
Glob(q, qs, ext) == {n \in DOMAIN q \cup DOMAIN qs : EndsWith(n, ext)}

get_queued_prompts(q, qs) == SortedAsc(Glob(q, qs, ext_txt) \cup Glob(q, qs, ext_md))

\* line 122: the archive directory name
RunSubdir(name, t) == Strftime(t) \o <<"_">> \o Stem(name)

\* line 123: run_subdir.mkdir(exist_ok=True)
Mkdir(r, d) == IF d \in DOMAIN r THEN r ELSE Put(r, d, Empty)

\* lines 138-146: the metadata dict
Metadata(name, res) ==
    [original_prompt |-> name,
     processed_at    |-> res.processed_at,
     topic           |-> res.topic,
     files_generated |-> <<decision_logic_txt, flowchart_md>>]

\* move_to_run with the prompt file copied into the archive directory and
\* left in queued/
move_to_run_copying(q, r, name, res, t, moved) ==
    LET d  == RunSubdir(name, t)
        r1 == Mkdir(r, d)
    IN  IF ~moved
        THEN [raised |-> TRUE, queued |-> q, run |-> r1, files |-> <<>>]
        ELSE LET f1 == Put(r1[d], name, q[name])
                 f2 == Put(f1, decision_logic_txt, res.logic_text)
                 f3 == Put(f2, flowchart_md, res.mermaid_chart)
                 f4 == Put(f3, execution_metadata_json, JsonDumps(Metadata(name, res)))
             IN  [raised |-> FALSE,
                  queued |-> q,
                  run    |-> Put(r1, d, f4),
                  files  |-> [prompt_file   |-> <<d, name>>,
                              logic_file    |-> <<d, decision_logic_txt>>,
                              mermaid_file  |-> <<d, flowchart_md>>,
                              metadata_file |-> <<d, execution_metadata_json>>]]

\* move_to_run on the file name of queued/ with content q[name]; moved says
\* whether shutil.move succeeds.  raised: the exception leaves the method.
move_to_run(q, r, name, res, t, moved) ==
    LET d  == RunSubdir(name, t)
        r1 == Mkdir(r, d)
    IN  IF ~moved
        THEN [raised |-> TRUE, queued |-> q, run |-> r1, files |-> <<>>]
        ELSE LET f1 == Put(r1[d], name, q[name])
                 f2 == Put(f1, decision_logic_txt, res.logic_text)
                 f3 == Put(f2, flowchart_md, res.mermaid_chart)
                 f4 == Put(f3, execution_metadata_json, JsonDumps(Metadata(name, res)))
             IN  [raised |-> FALSE,
                  queued |-> Remove(q, name),
                  run    |-> Put(r1, d, f4),
                  files  |-> [prompt_file   |-> <<d, name>>,
                              logic_file    |-> <<d, decision_logic_txt>>,
                              mermaid_file  |-> <<d, flowchart_md>>,
                              metadata_file |-> <<d, execution_metadata_json>>]]

\* how a call ends
Returned(op, value) == [op |-> op, status |-> "returned", value |-> value]

Raised(op, exception) == [op |-> op, status |-> exception, value |-> <<>>]

NoReturn == [op |-> "none", status |-> "none", value |-> <<>>]

\* the directories sorted without reverse=True
SortSubdirsAscending(S) == SortedAsc(S)

\* line 200: run_subdirs.sort(key=lambda x: x.name, reverse=True)
SortSubdirs(S) == SortedDesc(S)

RECURSIVE HistoryLoop(_, _, _)
\* lines 202-206: the loop over the sorted directories
HistoryLoop(r, subdirs, run_history) ==
    IF Len(subdirs) = 0 THEN Returned("get_run_history", run_history)
    ELSE LET subdir == Head(subdirs)
         IN  IF execution_metadata_json \in DOMAIN r[subdir]
             THEN LET doc == JsonLoads(r[subdir][execution_metadata_json])
                  IN  IF doc.ok
                      THEN HistoryLoop(r, Tail(subdirs), Append(run_history, doc.val))
                      ELSE Raised("get_run_history", "JSONDecodeError")
             ELSE HistoryLoop(r, Tail(subdirs), run_history)

get_run_history(r) == HistoryLoop(r, SortSubdirs(DOMAIN r), <<>>)

-----------------------------------------------------------------------------
(* The queue system: state, operations, specifications                     *)

a_md == <<"a">> \o ext_md

n_json == <<"n", ".", "j", "s", "o", "n">>

sub == <<"s", "u", "b">>

d_md == <<"d">> \o ext_md

\* names under which a file is placed into queued/
FileNames == {a_txt, a_md, decision_logic_txt, n_json}

\* names under which a directory is made in queued/
DirNames == {sub, d_md}

\* contents of the files placed into queued/
PromptTexts ==
    { <<"#", "k", ":", "v", "\n", "E", "m", "e", "r", "g", "e", "n", "c", "y">>,
      <<"x">> }

FsInit ==
    /\ queued = Empty
    /\ queued_subdirs = Empty
    /\ run = Empty
    /\ now = 0
    /\ pc = "idle"
    /\ queued_prompts = <<>>
    /\ idx = 1
    /\ results = <<>>
    /\ ret = NoReturn
    /\ dropped = 0

\* the operator places a prompt file into queued/
Enqueue(name, content) ==
    /\ pc = "idle"
    /\ dropped < MaxDrops
    /\ name \notin DOMAIN queued_subdirs
    /\ queued' = Put(queued, name, content)
    /\ dropped' = dropped + 1
    /\ UNCHANGED <<queued_subdirs, run, now, pc, queued_prompts, idx, results,
                   ret, textVars>>

\* the operator makes a directory holding one file in queued/
MakeSubdir(name) ==
    /\ pc = "idle"
    /\ dropped < MaxDrops
    /\ name \notin DOMAIN queued \cup DOMAIN queued_subdirs
    /\ queued_subdirs' = Put(queued_subdirs, name, Put(Empty, a_txt, <<"x">>))
    /\ dropped' = dropped + 1
    /\ UNCHANGED <<queued, run, now, pc, queued_prompts, idx, results, ret, textVars>>

\* a second passes
Tick ==
    /\ now < MaxClock
    /\ now' = now + 1
    /\ UNCHANGED <<queued, queued_subdirs, run, pc, queued_prompts, idx, results,
                   ret, dropped, textVars>>

\* process_all_prompts, lines 158-165: the listing and the empty-queue return
PassBegin ==
    /\ pc = "idle"
    /\ idx' = 1
    /\ results' = <<>>
    /\ IF Len(get_queued_prompts(queued, queued_subdirs)) = 0
       THEN /\ pc' = "idle"
            /\ queued_prompts' = <<>>
            /\ ret' = Returned("process_all_prompts", <<>>)
       ELSE /\ pc' = "loop"
            /\ queued_prompts' = get_queued_prompts(queued, queued_subdirs)
            /\ ret' = NoReturn
    /\ UNCHANGED <<queued, queued_subdirs, run, now, dropped, textVars>>

\* lines 180-185: the execution record
ExecutionRecord(name, res, files) ==
    [original_file |-> name,
     topic         |-> res.topic,
     files_created |-> files,
     processed_at  |-> res.processed_at]

\* process_all_prompts, lines 167-192: one iteration of the loop on a path
\* that is a directory; read_text raises
PassItemDirectory ==
    /\ pc = "loop"
    /\ queued_prompts[idx] \in DOMAIN queued_subdirs
    /\ pc' = "idle"
    /\ ret' = Raised("process_all_prompts", "IsADirectoryError")
    /\ queued_prompts' = <<>> /\ idx' = 1 /\ results' = <<>>
    /\ UNCHANGED <<queued, queued_subdirs, run, now, dropped, textVars>>

\* process_all_prompts, lines 167-192: one iteration of the loop on a file,
\* and the return after the last one
PassItem(moved) ==
    /\ pc = "loop"
    /\ queued_prompts[idx] \in DOMAIN queued
    /\ LET prompt_file == queued_prompts[idx]
           pd  == read_prompt_content(prompt_file, queued[prompt_file], now)
           res == process_prompt(pd, now)
           mv  == move_to_run(queued, run, prompt_file, res, now, moved)
           rs  == Append(results, ExecutionRecord(prompt_file, res, mv.files))
       IN  /\ queued' = mv.queued
           /\ run' = mv.run
           /\ IF mv.raised
              THEN /\ pc' = "idle"
                   /\ ret' = Raised("process_all_prompts", "OSError")
                   /\ queued_prompts' = <<>> /\ idx' = 1 /\ results' = <<>>
              ELSE IF idx = Len(queued_prompts)
              THEN /\ pc' = "idle"
                   /\ ret' = Returned("process_all_prompts", rs)
                   /\ queued_prompts' = <<>> /\ idx' = 1 /\ results' = <<>>
              ELSE /\ pc' = "loop"
                   /\ results' = rs
                   /\ idx' = idx + 1
                   /\ UNCHANGED <<queued_prompts, ret>>
    /\ UNCHANGED <<queued_subdirs, now, dropped, textVars>>

\* a call of get_run_history
GetRunHistory ==
    /\ pc = "idle"
    /\ ret' = get_run_history(run)
    /\ UNCHANGED <<queued, queued_subdirs, run, now, pc, queued_prompts, idx,
                   results, dropped, textVars>>

\* a metadata document under run/ is cut short outside the program
\* (an interrupted write, an edit)
TruncateMetadata(d) ==
    /\ pc = "idle"
    /\ d \in DOMAIN run
    /\ execution_metadata_json \in DOMAIN run[d]
    /\ JsonLoads(run[d][execution_metadata_json]).ok
    /\ run' = Put(run, d, Put(run[d], execution_metadata_json,
                              SubSeq(run[d][execution_metadata_json], 1,
                                     Len(run[d][execution_metadata_json]) \div 2)))
    /\ UNCHANGED <<queued, queued_subdirs, now, pc, queued_prompts, idx, results,
                   ret, dropped, textVars>>

Init == FsInit /\ TextIdle

Next ==
    \/ \E name \in FileNames, content \in PromptTexts : Enqueue(name, content)
    \/ \E name \in DirNames : MakeSubdir(name)
    \/ Tick
    \/ PassBegin
    \/ PassItemDirectory
    \/ \E moved \in BOOLEAN : PassItem(moved)
    \/ GetRunHistory

Spec == Init /\ [][Next]_vars

\* the queue system with metadata documents damaged from outside
NextDamaged ==
    \/ Next
    \/ \E d \in DOMAIN run : TruncateMetadata(d)

SpecDamaged == Init /\ [][NextDamaged]_vars

\* the single-prompt pipeline on every text of Texts
InitText ==
    /\ FsInit
    /\ text \in Texts
    /\ prompt_data = NoData
    /\ result = NoResult
    /\ phase = "file"

NextText == ReadPrompt \/ ProcessPrompt

SpecText == InitText /\ [][NextText]_vars

-----------------------------------------------------------------------------
(* Properties                                                              *)

\* the archive directories that hold a metadata document
WithMetadata(r) == {d \in DOMAIN r : execution_metadata_json \in DOMAIN r[d]}

\* original_prompt of the metadata document of archive directory d
OriginalPrompt(r, d) ==
    LET doc == JsonLoads(r[d][execution_metadata_json])
    IN  IF doc.ok THEN doc.val.original_prompt ELSE <<>>

\* the step in which a process_all_prompts pass over a non-empty pending set returns
PassReturned == pc = "loop" /\ pc' = "idle" /\ ret'.status = "returned"

\* the step in which move_to_run has returned to process_all_prompts
MoveReturned == PassReturned \/ Len(results') = Len(results) + 1

\* the execution record of that call
LastRecord == IF PassReturned THEN ret'.value[Len(ret'.value)] ELSE results'[Len(results')]

\* C1: when a pass returns, every path it listed is gone from queued/ and
\* exactly one of the archive directories the pass reports has a metadata
\* document whose original_prompt is that file's name.
C1_EachPendingFileArchivedOnce ==
    [][PassReturned =>
          \A i \in 1..Len(queued_prompts) :
              LET f    == queued_prompts[i]
                  dirs == {ret'.value[k].files_created.metadata_file[1] :
                              k \in 1..Len(ret'.value)}
              IN  /\ f \notin DOMAIN queued'
                  /\ Cardinality({d \in dirs : OriginalPrompt(run', d) = f}) = 1]_vars

\* C2: no file under run/ is removed or changed by a later step, and every
\* move_to_run that returns has made a directory that did not exist before.
C2_ArchiveNeverReused ==
    [][/\ \A d \in DOMAIN run :
              /\ d \in DOMAIN run'
              /\ \A f \in DOMAIN run[d] :
                     f \in DOMAIN run'[d] /\ run'[d][f] = run[d][f]
       /\ MoveReturned => LastRecord.files_created.metadata_file[1] \notin DOMAIN run]_vars

\* C3: when move_to_run returns, the four returned paths are pairwise
\* distinct, each names a file of the archive directory, and the relocated
\* original holds the content the prompt file had in queued/.
C3_FourSeparateFiles ==
    [][MoveReturned =>
          LET fc   == LastRecord.files_created
              name == LastRecord.original_file
              d    == fc.prompt_file[1]
              ps   == {fc.prompt_file, fc.logic_file, fc.mermaid_file, fc.metadata_file}
          IN  /\ Cardinality(ps) = 4
              /\ \A p \in ps : p[1] = d /\ p[2] \in DOMAIN run'[d]
              /\ fc.prompt_file[2] = name
              /\ run'[d][name] = queued[name]]_vars

\* C4: the artifact pair of a processed prompt is the template its topic
\* names, for each of the three specific topics.
C4_TopicNamesTemplate ==
    phase = "processed" =>
        /\ result.topic = emergency_room =>
               <<result.logic_text, result.mermaid_chart>> = create_emergency_room_logic
        /\ result.topic = software_deployment =>
               <<result.logic_text, result.mermaid_chart>> = create_software_deployment_logic
        /\ result.topic = business_investment =>
               <<result.logic_text, result.mermaid_chart>> = create_business_investment_logic

\* character c is letter k in either case (k a lower-case letter)
SameLetter(c, k) ==
    \/ c = k
    \/ c \in Upper /\ Ord[c] - Ord["A"] = Ord[k] - Ord["a"]

\* keyword kw occurs in body b in some mix of letter cases
Mentions(b, kw) ==
    \E i \in 1..Len(b) :
        /\ i + Len(kw) - 1 <= Len(b)
        /\ \A j \in 1..Len(kw) : SameLetter(b[i + j - 1], kw[j])

\* C5: the topic of a processed prompt is emergency_room when the body
\* mentions "emergency" in any letter case, whatever else it mentions;
\* otherwise software_deployment when it mentions "software" or
\* "deployment"; otherwise business_investment when it mentions "business"
\* or "investment"; and generic_decision exactly when it mentions none.
C5_OrderedFirstMatch ==
    phase = "processed" =>
        LET b == prompt_data.content
            E == Mentions(b, kw_emergency)
            S == Mentions(b, kw_software) \/ Mentions(b, kw_deployment)
            B == Mentions(b, kw_business) \/ Mentions(b, kw_investment)
        IN  /\ E => result.topic = emergency_room
            /\ (~E /\ S) => result.topic = software_deployment
            /\ (~E /\ ~S /\ B) => result.topic = business_investment
            /\ (result.topic = generic_decision) <=> (~E /\ ~S /\ ~B)

\* a processed body that mentions "emergency" with an upper-case letter
\* after a line mentioning "business"
C5_Witness ==
    /\ phase = "processed"
    /\ Mentions(prompt_data.content, kw_emergency)
    /\ ~Contains(kw_emergency, prompt_data.content)
    /\ Mentions(prompt_data.content, kw_business)
    /\ Find(prompt_data.content, "b") < Find(prompt_data.content, "E")
    /\ result.topic = emergency_room

\* C6: a pass that ends because shutil.move raised leaves run/ as it was.
C6_FailedMoveLeavesNoTrace ==
    [][(pc = "loop" /\ ret'.status = "OSError") => run' = run]_vars

\* the step in which a get_run_history call ends (GetRunHistory is the one
\* action that leaves its outcome in ret)
HistoryCalled == ret'.op = "get_run_history" /\ ret' # ret

\* the directories of S by name, descending
RECURSIVE Descending(_)
Descending(S) ==
    IF S = {} THEN <<>>
    ELSE LET top == CHOOSE d \in S : \A e \in S : e = d \/ StrLess(e, d)
         IN  <<top>> \o Descending(S \ {top})

\* the archive directories whose metadata document parses
WellFormed(r) == {d \in WithMetadata(r) : JsonLoads(r[d][execution_metadata_json]).ok}

\* C7: a get_run_history call returns normally, with the parsed metadata of
\* every archive directory whose metadata document is well formed.
C7_MalformedSkipped ==
    [][HistoryCalled =>
          /\ ret'.status = "returned"
          /\ LET ds == Descending(WellFormed(run))
             IN  /\ Len(ret'.value) = Len(ds)
                 /\ \A i \in 1..Len(ds) :
                        ret'.value[i] = JsonLoads(run[ds[i]][execution_metadata_json]).val]_vars

\* C8: a get_run_history call returns normally; its records are those of
\* the directories that hold a metadata document, one each, none for the
\* other directories, the record of a directory coming before the record
\* of every directory whose name is smaller.
C8_HistoryDescending ==
    [][HistoryCalled =>
          LET ds == Descending(WithMetadata(run))
          IN  /\ ret'.status = "returned"
              /\ Len(ret'.value) = Cardinality(WithMetadata(run))
              /\ \A i, j \in 1..Len(ds) : i < j => StrLess(ds[j], ds[i])
              /\ \A i \in 1..Len(ds) :
                     ret'.value[i] = JsonLoads(run[ds[i]][execution_metadata_json]).val]_vars

\* the history just read holds two records, the later timestamp first, and
\* run/ also holds a directory without a metadata document
C8_Witness ==
    /\ ret = get_run_history(run)
    /\ ret.status = "returned"
    /\ Len(ret.value) = 2
    /\ ret.value[1].processed_at = Isoformat(1)
    /\ ret.value[2].processed_at = Isoformat(0)
    /\ WithMetadata(run) # DOMAIN run

\* the lines of a file as the parser sees them: the trimmed content split
\* at line breaks, each line trimmed
TrimmedLines(content) ==
    LET raw == Split(Strip(content), "\n")
    IN  [i \in 1..Len(raw) |-> Strip(raw[i])]

\* the indices of the lines that begin with '#' and contain ':'
MetaIdx(L) ==
    {i \in 1..Len(L) : Len(L[i]) > 0 /\ L[i][1] = "#" /\ \E j \in 1..Len(L[i]) : L[i][j] = ":"}

\* the text between the marker and the first ':' of a metadata line, trimmed
KeyOf(line) ==
    LET c == CHOOSE j \in 1..Len(line) : line[j] = ":" /\ \A h \in 1..(j - 1) : line[h] # ":"
    IN  Strip(SubSeq(line, 2, c - 1))

\* the text after the first ':' of a metadata line, trimmed
ValueOf(line) ==
    LET c == CHOOSE j \in 1..Len(line) : line[j] = ":" /\ \A h \in 1..(j - 1) : line[h] # ":"
    IN  Strip(SubSeq(line, c + 1, Len(line)))

\* the mapping of the metadata lines, a later line overwriting an earlier one
ExpectedMetadata(L) ==
    [k \in {KeyOf(L[i]) : i \in MetaIdx(L)} |->
        LET last == CHOOSE i \in MetaIdx(L) :
                        /\ KeyOf(L[i]) = k
                        /\ \A j \in MetaIdx(L) : KeyOf(L[j]) = k => j <= i
        IN  ValueOf(L[last])]

\* the lines of L at the indices of I, in order, joined by line breaks, trimmed
ExpectedBody(L, I) ==
    LET nth(k) == CHOOSE i \in I : Cardinality({j \in I : j <= i}) = k
    IN  Strip(Join(<<"\n">>, [k \in 1..Cardinality(I) |-> L[nth(k)]]))

\* the lines dropped as rules: those that start with '---'
RuleByPrefix(L) == {i \in 1..Len(L) : Len(L[i]) >= 3 /\ \A j \in 1..3 : L[i][j] = "-"}

\* the lines dropped as rules: those that are '---' and nothing else
RuleByExactMatch(L) == {i \in 1..Len(L) : L[i] = <<"-", "-", "-">>}

\* C9 as amended: of the trimmed lines of a file, those that begin with '#'
\* and contain ':' go to metadata (a later duplicate key overwriting), those
\* that start with '---' are dropped whatever follows the marker, and every
\* other line is appended in order to the body, which is joined and trimmed.
C9_LinesPartitioned ==
    phase # "file" =>
        LET L == TrimmedLines(text)
        IN  /\ prompt_data.metadata = ExpectedMetadata(L)
            /\ prompt_data.content =
                   ExpectedBody(L, (1..Len(L)) \ (MetaIdx(L) \cup RuleByPrefix(L)))

\* C9 as stated: only a line that is '---' and nothing else is dropped; a
\* line that starts with '---' followed by other text goes to the body.
C9_OnlyBareRuleDropped ==
    phase # "file" =>
        LET L == TrimmedLines(text)
        IN  /\ prompt_data.metadata = ExpectedMetadata(L)
            /\ prompt_data.content =
                   ExpectedBody(L, (1..Len(L)) \ (MetaIdx(L) \cup RuleByExactMatch(L)))

\* a parsed file with a line that starts with '---' followed by other text,
\* and a body line besides it
C9_Witness ==
    /\ phase = "read"
    /\ LET L == TrimmedLines(text)
       IN  /\ RuleByPrefix(L) # RuleByExactMatch(L)
           /\ (1..Len(L)) \ (MetaIdx(L) \cup RuleByPrefix(L)) # {}
    /\ prompt_data.content # <<>>

\* C10: the listing of queued/ is, without repetition and in ascending
\* order, exactly the plain files directly in queued/ whose name ends in
\* .txt or .md.
C10_ListsExactlyTheFiles ==
    LET l == get_queued_prompts(queued, queued_subdirs)
    IN  /\ {l[i] : i \in 1..Len(l)} =
               {n \in DOMAIN queued : EndsWith(n, ext_txt) \/ EndsWith(n, ext_md)}
        /\ \A i, j \in 1..Len(l) : i < j => StrLess(l[i], l[j])

\* the step in which process_all_prompts is called
PassCalled ==
    /\ pc = "idle"
    /\ \/ pc' = "loop"
       \/ ret'.op = "process_all_prompts" /\ ret' # ret

\* the pending set of a state: the listing process_all_prompts would obtain
Pending(q, qs) == get_queued_prompts(q, qs)

\* C11: a process_all_prompts pass over an empty pending set returns the
\* empty list in the same step and changes nothing under queued/ or run/;
\* and a pass that has returned leaves the pending set empty, so that the
\* pass that follows it with nothing newly queued is such a pass: it returns
\* the empty list and leaves the archive directories and their contents
\* unchanged.
C11_EmptyPassIsNoOp ==
    [][/\ (PassCalled /\ Len(Pending(queued, queued_subdirs)) = 0) =>
              /\ pc' = "idle"
              /\ ret' = Returned("process_all_prompts", <<>>)
              /\ queued' = queued
              /\ queued_subdirs' = queued_subdirs
              /\ run' = run
       /\ PassReturned => Len(Pending(queued', queued_subdirs')) = 0]_vars

\* one prompt was queued and archived by a pass, and the pass that followed
\* has returned the empty list
C11_Witness ==
    /\ dropped = 1
    /\ WithMetadata(run) # {}
    /\ queued = Empty
    /\ pc = "idle"
    /\ ret = Returned("process_all_prompts", <<>>)

====
